---------------------------- MODULE Spec2Model ----------------------------
(***************************************************************************)
(* Model of the noraneko-latest-artifact-store worker (src/src/index.ts):  *)
(* the fetch dispatcher, the OIDC token verification, the upload, list and *)
(* download handlers and the R2 bucket they call.                          *)
(*                                                                         *)
(* Strings whose characters the code inspects (refs, branches, filenames,  *)
(* keys) are sequences of one-character strings; strings the code only     *)
(* compares or passes on (repository, actor, bodies) are TLA+ strings.     *)
(* An optional value (a header or query parameter that may be absent, a    *)
(* nullable result) is a sequence of length 0 (absent) or 1 (present).     *)
(***************************************************************************)
EXTENDS Naturals, Sequences, FiniteSets

VARIABLES
    store,        \* env.ARTIFACTS_BUCKET: key -> stored object
    clock,        \* the wall clock read by new Date() at each put
    resp,         \* <<>> between requests, else <<r>>: the request being answered
    jwksFetched,  \* history: some earlier request fetched the remote key set
    latest,       \* history: (branch, filename) -> the last successful upload
    inflight      \* the requests the runtime handles concurrently, by position

vars == <<store, clock, resp, jwksFetched, latest, inflight>>

(***************************************************************************)
(* Bounds                                                                  *)
(***************************************************************************)
\* Number of uploads that reach the bucket's put (caps the clock).
MaxUploads == 2

(***************************************************************************)
(* Optional values                                                         *)
(***************************************************************************)
None == <<>>
Some(v) == <<v>>
IsSome(o) == Len(o) = 1
Val(o) == o[1]

(***************************************************************************)
(* String constants of the source                                          *)
(***************************************************************************)
GITHUB_OIDC_ISSUER == "https://token.actions.githubusercontent.com"
RefsHeadsPrefix == <<"r", "e", "f", "s", "/", "h", "e", "a", "d", "s", "/">>
RefsTagsPrefix == <<"r", "e", "f", "s", "/", "t", "a", "g", "s", "/">>
LatestSegment == <<"/", "l", "a", "t", "e", "s", "t", "/">>
DefaultBranch == <<"m", "a", "i", "n">>
DefaultContentType == "application/octet-stream"
\* env.ALLOWED_REPOSITORY, the value the deployment and the README configure
ALLOWED_REPOSITORY == "f3liz-dev/noraneko-runtime"

Lower == {"a", "b", "c", "d", "e", "f", "g", "h", "i", "j", "k", "l", "m", "n", "o", "p", "q", "r", "s", "t", "u", "v", "w", "x", "y", "z"}
Upper == {"A", "B", "C", "D", "E", "F", "G", "H", "I", "J", "K", "L", "M", "N", "O", "P", "Q", "R", "S", "T", "U", "V", "W", "X", "Y", "Z"}
Digit == {"0", "1", "2", "3", "4", "5", "6", "7", "8", "9"}
\* the character class [a-zA-Z0-9._-] of filenameRegex
FilenameChars == Lower \cup Upper \cup Digit \cup {".", "_", "-"}

(***************************************************************************)
(* String operations of the JavaScript runtime                             *)
(***************************************************************************)
\* String.prototype.startsWith
StartsWith(s, p) == Len(s) >= Len(p) /\ SubSeq(s, 1, Len(p)) = p

\* the positions at which pat occurs in s
Occurrences(s, pat) ==
    {i \in 1..(Len(s) + 1 - Len(pat)) : SubSeq(s, i, i + Len(pat) - 1) = pat}

\* String.prototype.replace with a string pattern: the first occurrence only
ReplaceFirst(s, pat, rep) ==
    IF Occurrences(s, pat) = {} THEN s
    ELSE LET i == CHOOSE j \in Occurrences(s, pat) :
                      \A k \in Occurrences(s, pat) : j <= k
         IN SubSeq(s, 1, i - 1) \o rep \o SubSeq(s, i + Len(pat), Len(s))

\* String.prototype.replaceAll, which the code does not use
RECURSIVE ReplaceEvery(_, _, _)
ReplaceEvery(s, pat, rep) ==
    IF Occurrences(s, pat) = {} THEN s
    ELSE ReplaceEvery(ReplaceFirst(s, pat, rep), pat, rep)

(***************************************************************************)
(* extractBranchFromRef                                                    *)
(***************************************************************************)
extractBranchFromRefAll(ref) ==
    IF StartsWith(ref, RefsHeadsPrefix) THEN ReplaceEvery(ref, RefsHeadsPrefix, <<>>)
    ELSE IF StartsWith(ref, RefsTagsPrefix) THEN ReplaceEvery(ref, RefsTagsPrefix, <<>>)
    ELSE ref

extractBranchFromRef(ref) ==
    IF StartsWith(ref, RefsHeadsPrefix) THEN ReplaceFirst(ref, RefsHeadsPrefix, <<>>)
    ELSE IF StartsWith(ref, RefsTagsPrefix) THEN ReplaceFirst(ref, RefsTagsPrefix, <<>>)
    ELSE ref

(***************************************************************************)
(* Filename validation and key derivation                                  *)
(***************************************************************************)
\* /^[a-zA-Z0-9._-]+$/.test(filename) in handleUpload
uploadFilenameRegexTest(filename) ==
    /\ Len(filename) >= 1
    /\ \A i \in 1..Len(filename) : filename[i] \in FilenameChars

\* /^[a-zA-Z0-9._-]+$/.test(filename) in handleDownload
downloadFilenameRegexTest(filename) ==
    /\ Len(filename) >= 1
    /\ \A i \in 1..Len(filename) : filename[i] \in FilenameChars

\* !filename: null and the empty string are both falsy
Falsy(o) == ~IsSome(o) \/ Len(Val(o)) = 0

\* `${branch}/latest/${filename}`
TemplateKey(branch, filename) == branch \o LatestSegment \o filename

\* "main" whatever the parameter
BranchAlwaysDefault(param) == DefaultBranch

\* url.searchParams.get("branch") ?? "main": only an absent parameter defaults
BranchOrDefaultNullish(param) == IF ~IsSome(param) THEN DefaultBranch ELSE Val(param)

\* url.searchParams.get("branch") || "main"
BranchOrDefault(param) == IF Falsy(param) THEN DefaultBranch ELSE Val(param)

(***************************************************************************)
(* Bearer tokens as the verifier sees them                                 *)
(***************************************************************************)
\* key identifiers published at GITHUB_JWKS_URI
RemoteJwks == {"k1"}

Token(wf, kid, sig, iss, expd, repo, owner, ref, actor, run) ==
    [wellFormed |-> wf, kid |-> kid, sigOK |-> sig, iss |-> iss, expired |-> expd,
     repository |-> repo, repository_owner |-> owner, ref |-> ref,
     actor |-> actor, run_id |-> run, run_number |-> run]

RefMain == <<"r", "e", "f", "s", "/", "h", "e", "a", "d", "s", "/", "m", "a", "i", "n">>
\* a tag whose name continues the key prefix of branch main
RefNested == <<"r", "e", "f", "s", "/", "t", "a", "g", "s", "/", "m", "a", "i", "n", "/", "l", "a", "t", "e", "s", "t", "/", "x">>
\* the ref of a pull_request run: neither a branch nor a tag
RefPull == <<"r", "e", "f", "s", "/", "p", "u", "l", "l", "/", "7", "/", "m", "e", "r", "g", "e">>
\* the branch named refs/heads/x
RefDouble == <<"r", "e", "f", "s", "/", "h", "e", "a", "d", "s", "/", "r", "e", "f", "s", "/", "h", "e", "a", "d", "s", "/", "x">>

GoodToken(ref, actor, run) ==
    Token(TRUE, "k1", TRUE, GITHUB_OIDC_ISSUER, FALSE, ALLOWED_REPOSITORY,
          "f3liz-dev", ref, actor, run)

TokMain == GoodToken(RefMain, "alice", "101")
\* a later run on the same branch by another actor
TokMainLater == GoodToken(RefMain, "bob", "102")
TokNested == GoodToken(RefNested, "carol", "103")
TokPull == GoodToken(RefPull, "dave", "104")
TokDouble == GoodToken(RefDouble, "erin", "105")
\* "invalid-token": not a compact JWS at all
TokMalformed == [TokMain EXCEPT !.wellFormed = FALSE]
\* signed with a key the issuer does not publish
TokUnknownKid == [TokMain EXCEPT !.kid = "k2"]
TokBadSig == [TokMain EXCEPT !.sigOK = FALSE]
TokWrongIssuer == [TokMain EXCEPT !.iss = "https://issuer.example"]
TokExpired == [TokMain EXCEPT !.expired = TRUE]
\* a genuine GitHub token of another repository of the same owner
TokWrongRepo == [TokMain EXCEPT !.repository = "f3liz-dev/noraneko-runtime-fork"]

ValidTokens == {TokMain, TokMainLater, TokNested, TokPull, TokDouble}
Tokens == ValidTokens \cup
    {TokMalformed, TokUnknownKid, TokBadSig, TokWrongIssuer, TokExpired, TokWrongRepo}

(***************************************************************************)
(* jose: createRemoteJWKSet and jwtVerify                                  *)
(***************************************************************************)
\* The key function returned by createRemoteJWKSet, called with what it has
\* cached (None: nothing fetched yet). It fetches when it holds no key set,
\* and once more on an unknown key id unless it fetched just now (cooldown).
JwksGetKey(cached, kid) ==
    LET cold == ~IsSome(cached)
        first == IF cold THEN RemoteJwks ELSE Val(cached)
        again == kid \notin first /\ ~cold
        keys == IF again THEN RemoteJwks ELSE first
    IN [found |-> kid \in keys,
        fetches |-> (IF cold THEN 1 ELSE 0) + (IF again THEN 1 ELSE 0)]

\* jose.jwtVerify(token, JWKS, {issuer}): decode, find the key, verify the
\* signature, then the issuer and the expiry.
jwtVerify(token, cached, issuer) ==
    IF ~token.wellFormed
    THEN [ok |-> FALSE, fetches |-> 0, err |-> "Invalid Compact JWS"]
    ELSE LET k == JwksGetKey(cached, token.kid)
         IN IF ~k.found
            THEN [ok |-> FALSE, fetches |-> k.fetches,
                  err |-> "no applicable key found in the JSON Web Key Set"]
            ELSE IF ~token.sigOK
            THEN [ok |-> FALSE, fetches |-> k.fetches,
                  err |-> "signature verification failed"]
            ELSE IF token.iss # issuer
            THEN [ok |-> FALSE, fetches |-> k.fetches,
                  err |-> "unexpected iss claim value"]
            ELSE IF token.expired
            THEN [ok |-> FALSE, fetches |-> k.fetches,
                  err |-> "exp claim timestamp check failed"]
            ELSE [ok |-> TRUE, fetches |-> k.fetches, err |-> ""]

\* claims.repository !== allowedRepository, weakened to the owner
RepositoryAllowedByOwner(claims, allowedRepository) ==
    claims.repository_owner = "f3liz-dev"

\* the negation of claims.repository !== allowedRepository
RepositoryAllowed(claims, allowedRepository) ==
    claims.repository = allowedRepository

\* verifyGitHubOIDCToken: a new remote key set per call, so nothing cached
verifyGitHubOIDCToken(token, allowedRepository) ==
    LET JWKS == None
        v == jwtVerify(token, JWKS, GITHUB_OIDC_ISSUER)
    IN IF ~v.ok
       THEN [ok |-> FALSE, fetches |-> v.fetches, err |-> v.err, repoChecked |-> FALSE]
       ELSE IF ~RepositoryAllowed(token, allowedRepository)
       THEN [ok |-> FALSE, fetches |-> v.fetches, err |-> "Repository mismatch",
             repoChecked |-> TRUE]
       ELSE [ok |-> TRUE, fetches |-> v.fetches, err |-> "", repoChecked |-> TRUE]

(***************************************************************************)
(* The R2 bucket                                                           *)
(***************************************************************************)
EmptyStore == [k \in {} |-> None]

R2Put(st, key, obj) ==
    [k \in (DOMAIN st) \cup {key} |-> IF k = key THEN obj ELSE st[k]]

R2Get(st, key) == IF key \in DOMAIN st THEN Some(st[key]) ELSE None

\* list({prefix}): the keys that start with the prefix
R2List(st, prefix) == {k \in DOMAIN st : StartsWith(k, prefix)}

\* put that keeps an existing object (create-if-absent)
UploadPutIfAbsent(st, key, obj) == IF key \in DOMAIN st THEN st ELSE R2Put(st, key, obj)

\* put that replaces the body and keeps the metadata of an existing object
UploadPutKeepMetadata(st, key, obj) ==
    IF key \in DOMAIN st
    THEN R2Put(st, key, [st[key] EXCEPT !.body = obj.body])
    ELSE R2Put(st, key, obj)

\* env.ARTIFACTS_BUCKET.put(key, body, {...}) in handleUpload: unconditional
UploadPut(st, key, obj) == R2Put(st, key, obj)

\* the object the put of handleUpload stores
UploadObject(claims, branch, body, contentType, now) ==
    [body |-> body,
     contentType |-> contentType,
     repository |-> claims.repository,
     branch |-> branch,
     ref |-> claims.ref,
     actor |-> claims.actor,
     run_id |-> claims.run_id,
     run_number |-> claims.run_number,
     uploaded_at |-> now]

(***************************************************************************)
(* Requests                                                                *)
(***************************************************************************)
NameZip == <<"x", ".", "z", "i", "p">>
NameDotDot == <<".", ".">>
NameTraversal == <<".", ".", "/", ".", ".", "/", ".", ".", "/", "e", "t", "c", "/", "p", "a", "s", "s", "w", "d">>
NameSpace == <<"a", " ", "b">>

Methods == {"GET", "PUT", "POST", "OPTIONS"}
Paths == {"/health", "/upload", "/artifacts", "/download", "/unknown"}

\* request.headers.get("Authorization"): absent, or a scheme prefix and the rest
AuthHeaders ==
    {None, Some([scheme |-> "Basic ", token |-> TokMain])}
        \cup {Some([scheme |-> "Bearer ", token |-> t]) : t \in Tokens}

\* url.searchParams.get("filename")
FilenameParams ==
    {None, Some(<<>>), Some(NameZip), Some(NameDotDot), Some(NameTraversal),
     Some(NameSpace)}

\* url.searchParams.get("branch")
BranchParams ==
    {None, Some(<<>>)} \cup {Some(extractBranchFromRef(t.ref)) : t \in ValidTokens}

\* request.body
Bodies == {None, Some("B1"), Some("B2")}

\* request.headers.get("Content-Type")
ContentTypes == {None, Some("application/zip")}

\* The answer of one request, with what the handler did on the way.
NoResponse ==
    [method |-> "", path |-> "", route |-> "",
     auth |-> None, filename |-> None, branch |-> None, body |-> None,
     status |-> 0, uncaught |-> FALSE, errMsg |-> "",
     key |-> None, respKey |-> None, bytes |-> None, contentType |-> None,
     disposition |-> None, artifactHeaders |-> None,
     listBranch |-> None, listed |-> {},
     checks |-> <<>>, verified |-> FALSE, fetches |-> 0, cacheWarm |-> FALSE,
     calls |-> <<>>, storageFailed |-> FALSE]

\* the route fetch takes, in the order of its tests
Route(method, path) ==
    IF method = "OPTIONS" THEN "options"
    ELSE IF path = "/health" THEN "health"
    ELSE IF path = "/upload" /\ method = "PUT" THEN "upload"
    ELSE IF path = "/artifacts" /\ method = "GET" THEN "artifacts"
    ELSE IF path = "/download" /\ method = "GET" THEN "download"
    ELSE "notfound"

Request(method, path) ==
    [NoResponse EXCEPT !.method = method, !.path = path, !.route = Route(method, path)]

\* authHeader?.startsWith("Bearer ")
IsBearer(auth) == IsSome(auth) /\ Val(auth).scheme = "Bearer "

(***************************************************************************)
(* handleUpload, after the token was verified                              *)
(***************************************************************************)
\* r: the request so far; putOk: whether the bucket's put succeeds.
\* A put that throws is caught by the try/catch around handleUpload in fetch.
handleUpload(r, claims, putOk) ==
    IF Falsy(r.filename)
    THEN [r EXCEPT !.status = 400, !.errMsg = "Missing filename parameter",
                   !.checks = @ \o <<"filename-present">>]
    ELSE IF ~uploadFilenameRegexTest(Val(r.filename))
    THEN [r EXCEPT !.status = 400, !.errMsg = "Invalid filename format",
                   !.checks = @ \o <<"filename-present", "filename-valid">>]
    ELSE LET branch == extractBranchFromRef(claims.ref)
             key == TemplateKey(branch, Val(r.filename))
         IN IF ~IsSome(r.body)
            THEN [r EXCEPT !.status = 400, !.errMsg = "Request body is required",
                           !.key = Some(key),
                           !.checks = @ \o <<"filename-present", "filename-valid",
                                             "key", "body">>]
            ELSE LET called ==
                       [r EXCEPT !.key = Some(key),
                                 !.checks = @ \o <<"filename-present", "filename-valid",
                                                   "key", "body">>,
                                 !.calls = @ \o <<[op |-> "put", key |-> key]>>]
                 IN IF putOk
                    THEN [called EXCEPT !.status = 200, !.respKey = Some(key)]
                    ELSE [called EXCEPT !.status = 403, !.storageFailed = TRUE,
                                        !.errMsg = "storage error"]

\* the PUT /upload branch of fetch with the filename checked ahead of the token
fetchUploadNameFirst(r, putOk, warm) ==
    IF Falsy(r.filename) \/ ~uploadFilenameRegexTest(Val(r.filename))
    THEN [r EXCEPT !.status = 400, !.errMsg = "Invalid filename format",
                   !.checks = <<"filename-present", "filename-valid">>]
    ELSE IF ~IsBearer(r.auth)
    THEN [r EXCEPT !.status = 401, !.errMsg = "Missing or invalid Authorization header",
                   !.checks = <<"bearer">>]
    ELSE LET token == Val(r.auth).token
             v == verifyGitHubOIDCToken(token, ALLOWED_REPOSITORY)
             r1 == [r EXCEPT !.verified = TRUE, !.fetches = v.fetches,
                             !.cacheWarm = warm,
                             !.checks = IF v.repoChecked
                                        THEN <<"bearer", "verify", "repository">>
                                        ELSE <<"bearer", "verify">>]
         IN IF ~v.ok
            THEN [r1 EXCEPT !.status = 403, !.errMsg = v.err]
            ELSE handleUpload(r1, token, putOk)

\* the PUT /upload branch of fetch
fetchUpload(r, putOk, warm) ==
    IF ~IsBearer(r.auth)
    THEN [r EXCEPT !.status = 401, !.errMsg = "Missing or invalid Authorization header",
                   !.checks = <<"bearer">>]
    ELSE LET token == Val(r.auth).token
             v == verifyGitHubOIDCToken(token, ALLOWED_REPOSITORY)
             r1 == [r EXCEPT !.verified = TRUE, !.fetches = v.fetches,
                             !.cacheWarm = warm,
                             !.checks = IF v.repoChecked
                                        THEN <<"bearer", "verify", "repository">>
                                        ELSE <<"bearer", "verify">>]
         IN IF ~v.ok
            THEN [r1 EXCEPT !.status = 403, !.errMsg = v.err]
            ELSE handleUpload(r1, token, putOk)

\* did the upload store its object
Stored(r) ==
    /\ r.route = "upload"
    /\ Len(r.calls) > 0
    /\ ~r.storageFailed

Upload ==
    /\ resp = None
    /\ \E auth \in AuthHeaders, filename \in FilenameParams, body \in Bodies,
          ct \in ContentTypes, putOk \in BOOLEAN :
         LET r0 == [Request("PUT", "/upload") EXCEPT
                        !.auth = auth, !.filename = filename, !.body = body]
             contentType == IF IsSome(ct) THEN Val(ct) ELSE DefaultContentType
             r == fetchUpload(r0, putOk, jwksFetched)
             claims == Val(auth).token
             branch == extractBranchFromRef(claims.ref)
         IN /\ Len(r.calls) > 0 => clock < MaxUploads
            /\ resp' = Some(r)
            /\ jwksFetched' = (jwksFetched \/ r.fetches > 0)
            /\ clock' = IF Len(r.calls) > 0 THEN clock + 1 ELSE clock
            /\ IF Stored(r)
               THEN /\ store' = UploadPut(store, Val(r.key),
                                   UploadObject(claims, branch, Val(body), contentType, clock))
                    /\ latest' = [p \in (DOMAIN latest) \cup {<<branch, Val(filename)>>} |->
                                    IF p = <<branch, Val(filename)>>
                                    THEN [body |-> Val(body), ct |-> ct,
                                          token |-> claims, at |-> clock,
                                          count |-> IF p \in DOMAIN latest
                                                    THEN latest[p].count + 1 ELSE 1]
                                    ELSE latest[p]]
               ELSE UNCHANGED <<store, latest>>
    /\ UNCHANGED inflight

(***************************************************************************)
(* handleList                                                              *)
(***************************************************************************)
\* listOk: whether the bucket's list succeeds; a list that throws leaves
\* fetch as a rejected promise, since no try/catch surrounds handleList.
handleList(r, st, listOk) ==
    LET branch == BranchOrDefault(r.branch)
        prefix == TemplateKey(branch, <<>>)
        called == [r EXCEPT !.calls = @ \o <<[op |-> "list", key |-> prefix]>>]
    IN IF ~listOk
       THEN [called EXCEPT !.uncaught = TRUE, !.storageFailed = TRUE]
       ELSE [called EXCEPT !.status = 200, !.listBranch = Some(branch),
                           !.listed = {[key |-> k, uploaded |-> st[k].uploaded_at] :
                                          k \in R2List(st, prefix)}]

List ==
    /\ resp = None
    /\ \E branch \in BranchParams, listOk \in BOOLEAN :
         resp' = Some(handleList([Request("GET", "/artifacts") EXCEPT !.branch = branch],
                                 store, listOk))
    /\ UNCHANGED <<store, clock, jwksFetched, latest, inflight>>

(***************************************************************************)
(* handleDownload                                                          *)
(***************************************************************************)
\* getOk: whether the bucket's get succeeds; a get that throws leaves fetch
\* as a rejected promise, since no try/catch surrounds handleDownload.
handleDownload(r, st, getOk) ==
    LET branch == BranchOrDefault(r.branch)
    IN IF Falsy(r.filename)
       THEN [r EXCEPT !.status = 400, !.errMsg = "Missing filename parameter",
                      !.checks = <<"filename-present">>]
       ELSE IF ~downloadFilenameRegexTest(Val(r.filename))
       THEN [r EXCEPT !.status = 400, !.errMsg = "Invalid filename",
                      !.checks = <<"filename-present", "filename-valid">>]
       ELSE LET key == TemplateKey(branch, Val(r.filename))
                called == [r EXCEPT !.key = Some(key),
                                    !.checks = <<"filename-present", "filename-valid", "key">>,
                                    !.calls = @ \o <<[op |-> "get", key |-> key]>>]
                object == R2Get(st, key)
            IN IF ~getOk
               THEN [called EXCEPT !.uncaught = TRUE, !.storageFailed = TRUE]
               ELSE IF ~IsSome(object)
               THEN [called EXCEPT !.status = 404, !.errMsg = "Artifact not found"]
               ELSE [called EXCEPT
                        !.status = 200,
                        !.bytes = Some(Val(object).body),
                        !.contentType = Some(Val(object).contentType),
                        !.disposition = r.filename,
                        !.artifactHeaders =
                            Some([repository |-> Val(object).repository,
                                  branch |-> Val(object).branch,
                                  uploaded_at |-> Val(object).uploaded_at,
                                  run_id |-> Val(object).run_id])]

Download ==
    /\ resp = None
    /\ \E branch \in BranchParams, filename \in FilenameParams, getOk \in BOOLEAN :
         resp' = Some(handleDownload(
                     [Request("GET", "/download") EXCEPT
                          !.branch = branch, !.filename = filename],
                     store, getOk))
    /\ UNCHANGED <<store, clock, jwksFetched, latest, inflight>>

(***************************************************************************)
(* The routes of fetch that call no handler                                *)
(***************************************************************************)
Options ==
    /\ resp = None
    /\ \E path \in Paths :
         resp' = Some([Request("OPTIONS", path) EXCEPT !.status = 200])
    /\ UNCHANGED <<store, clock, jwksFetched, latest, inflight>>

Health ==
    /\ resp = None
    /\ \E method \in Methods :
         /\ Route(method, "/health") = "health"
         /\ resp' = Some([Request(method, "/health") EXCEPT !.status = 200])
    /\ UNCHANGED <<store, clock, jwksFetched, latest, inflight>>

NotFound ==
    /\ resp = None
    /\ \E method \in Methods, path \in Paths :
         /\ Route(method, path) = "notfound"
         /\ resp' = Some([Request(method, path) EXCEPT
                              !.status = 404, !.errMsg = "Not found"])
    /\ UNCHANGED <<store, clock, jwksFetched, latest, inflight>>

\* the response leaves; the worker waits for the next request
Deliver ==
    /\ resp # None
    /\ resp' = None
    /\ UNCHANGED <<store, clock, jwksFetched, latest, inflight>>

(***************************************************************************)
(* The worker                                                              *)
(***************************************************************************)
Init ==
    /\ store = EmptyStore
    /\ clock = 0
    /\ resp = None
    /\ jwksFetched = FALSE
    /\ latest = [p \in {} |-> None]
    /\ inflight = <<>>

Next ==
    \/ Upload
    \/ List
    \/ Download
    \/ Options
    \/ Health
    \/ NotFound
    \/ Deliver

Spec == Init /\ [][Next]_vars

(***************************************************************************)
(* Concurrent requests on one (branch, filename)                           *)
(*                                                                         *)
(* The runtime runs several invocations of fetch at once; each yields at   *)
(* its awaits: the token verification, the bucket's put, the bucket's get. *)
(* The bucket executes each call atomically at some point between the      *)
(* handler issuing it and the handler resuming.                            *)
(***************************************************************************)
\* Number of requests the runtime handles at once.
MaxConcurrent == 3

\* the branch and filename all concurrent requests address
ConcKey == TemplateKey(DefaultBranch, NameZip)

\* a request the runtime has accepted and not yet started
Accepted(kind, r, ct) ==
    [kind |-> kind, pc |-> "start", req |-> r, ct |-> ct, out |-> NoResponse,
     obj |-> None, putOrder |-> 0]

ConcUpload(token, body, ct) ==
    Accepted("upload",
             [Request("PUT", "/upload") EXCEPT
                  !.auth = Some([scheme |-> "Bearer ", token |-> token]),
                  !.filename = Some(NameZip), !.body = Some(body)],
             ct)

ConcDownload ==
    Accepted("download",
             [Request("GET", "/download") EXCEPT
                  !.branch = Some(DefaultBranch), !.filename = Some(NameZip)],
             None)

\* two runs uploading x.zip to main, an upload with an expired token, a download
ConcRequests ==
    {ConcUpload(TokMain, "B1", None),
     ConcUpload(TokMainLater, "B2", Some("application/zip")),
     ConcUpload(TokExpired, "B2", None),
     ConcDownload}

\* the puts the bucket has executed so far
PutsExecuted == {i \in DOMAIN inflight : inflight[i].putOrder > 0}

\* the Bearer test, then await verifyGitHubOIDCToken(...) returns or throws
ConcVerify ==
    \E i \in DOMAIN inflight :
       LET q == inflight[i]
           v == verifyGitHubOIDCToken(Val(q.req.auth).token, ALLOWED_REPOSITORY)
       IN /\ q.kind = "upload"
          /\ q.pc = "start"
          /\ inflight' = [inflight EXCEPT ![i] =
                 IF IsBearer(q.req.auth) /\ v.ok THEN [q EXCEPT !.pc = "verified"]
                 ELSE [q EXCEPT !.pc = "done",
                                !.out = fetchUpload(q.req, TRUE, jwksFetched)]]
          /\ jwksFetched' = (jwksFetched \/ (IsBearer(q.req.auth) /\ v.fetches > 0))
          /\ UNCHANGED <<store, clock, resp, latest>>

\* handleUpload runs up to await env.ARTIFACTS_BUCKET.put(...): the object,
\* with new Date() read now, is handed to the bucket
ConcIssuePut ==
    \E i \in DOMAIN inflight :
       LET q == inflight[i]
           r == fetchUpload(q.req, TRUE, jwksFetched)
           claims == Val(q.req.auth).token
           contentType == IF IsSome(q.ct) THEN Val(q.ct) ELSE DefaultContentType
       IN /\ q.kind = "upload"
          /\ q.pc = "verified"
          /\ IF r.calls = <<>>
             THEN /\ inflight' = [inflight EXCEPT ![i] = [q EXCEPT !.pc = "done", !.out = r]]
                  /\ clock' = clock
             ELSE /\ inflight' = [inflight EXCEPT ![i] =
                         [q EXCEPT !.pc = "putting",
                                   !.out = [q.req EXCEPT !.calls = r.calls],
                                   !.obj = Some(UploadObject(claims,
                                                  extractBranchFromRef(claims.ref),
                                                  Val(q.req.body), contentType, clock))]]
                  /\ clock' = clock + 1
          /\ UNCHANGED <<store, resp, jwksFetched, latest>>

\* the bucket executes the put (or fails it) and handleUpload resumes
ConcPutDone ==
    \E i \in DOMAIN inflight, putOk \in BOOLEAN :
       LET q == inflight[i]
           r == fetchUpload(q.req, putOk, jwksFetched)
       IN /\ q.kind = "upload"
          /\ q.pc = "putting"
          /\ store' = IF putOk THEN UploadPut(store, Val(r.key), Val(q.obj)) ELSE store
          /\ inflight' = [inflight EXCEPT ![i] =
                 [q EXCEPT !.pc = "done", !.out = r,
                           !.putOrder = IF putOk THEN Cardinality(PutsExecuted) + 1 ELSE 0]]
          /\ UNCHANGED <<clock, resp, jwksFetched, latest>>

\* handleDownload runs up to await env.ARTIFACTS_BUCKET.get(key)
ConcIssueGet ==
    \E i \in DOMAIN inflight :
       LET q == inflight[i]
           r == handleDownload(q.req, store, TRUE)
       IN /\ q.kind = "download"
          /\ q.pc = "start"
          /\ inflight' = [inflight EXCEPT ![i] =
                 IF r.calls = <<>> THEN [q EXCEPT !.pc = "done", !.out = r]
                 ELSE [q EXCEPT !.pc = "getting",
                                !.out = [q.req EXCEPT !.calls = r.calls]]]
          /\ UNCHANGED <<store, clock, resp, jwksFetched, latest>>

\* the bucket executes the get (or fails it) and handleDownload resumes
ConcGetDone ==
    \E i \in DOMAIN inflight, getOk \in BOOLEAN :
       LET q == inflight[i]
       IN /\ q.kind = "download"
          /\ q.pc = "getting"
          /\ inflight' = [inflight EXCEPT ![i] =
                 [q EXCEPT !.pc = "done", !.out = handleDownload(q.req, store, getOk)]]
          /\ UNCHANGED <<store, clock, resp, jwksFetched, latest>>

InitConc ==
    /\ store = EmptyStore
    /\ clock = 0
    /\ resp = None
    /\ jwksFetched = FALSE
    /\ latest = [p \in {} |-> None]
    /\ inflight \in [1..MaxConcurrent -> ConcRequests]

NextConc ==
    \/ ConcVerify
    \/ ConcIssuePut
    \/ ConcPutDone
    \/ ConcIssueGet
    \/ ConcGetDone

SpecConc == InitConc /\ [][NextConc]_vars

(***************************************************************************)
(* Vocabulary of the claims                                                *)
(***************************************************************************)
Answering == resp # None
R == Val(resp)

\* what the claims ask of a token: signature by a published key, the
\* trusted issuer, not expired
TokenVerifies(t) ==
    /\ t.wellFormed
    /\ t.kid \in RemoteJwks
    /\ t.sigOK
    /\ t.iss = GITHUB_OIDC_ISSUER
    /\ ~t.expired

Contains(s, pat) == Occurrences(s, pat) # {}

\* the filenames the claims ask the validator to reject
UnsafeName(f) ==
    \/ Len(f) = 0
    \/ Contains(f, <<"/">>)
    \/ Contains(f, <<".", ".">>)
    \/ \E i \in 1..Len(f) : f[i] \notin FilenameChars

\* the filenames the character class admits
ValidName(f) ==
    /\ Len(f) > 0
    /\ \A i \in 1..Len(f) : f[i] \in FilenameChars

\* the part of a key after its last '/'
LastSegment(k) ==
    LET slashes == {i \in 1..Len(k) : k[i] = "/"}
    IN IF slashes = {} THEN k
       ELSE SubSeq(k, (CHOOSE i \in slashes : \A j \in slashes : j <= i) + 1, Len(k))

\* the ref without a leading refs/heads/ or refs/tags/
StripLeading(ref) ==
    IF Len(ref) >= Len(RefsHeadsPrefix)
          /\ \A i \in 1..Len(RefsHeadsPrefix) : ref[i] = RefsHeadsPrefix[i]
    THEN [i \in 1..(Len(ref) - Len(RefsHeadsPrefix)) |-> ref[i + Len(RefsHeadsPrefix)]]
    ELSE IF Len(ref) >= Len(RefsTagsPrefix)
          /\ \A i \in 1..Len(RefsTagsPrefix) : ref[i] = RefsTagsPrefix[i]
    THEN [i \in 1..(Len(ref) - Len(RefsTagsPrefix)) |-> ref[i + Len(RefsTagsPrefix)]]
    ELSE ref

\* the keys of the storage calls of the request being answered
PutKeys(r) == {r.calls[i].key : i \in {j \in 1..Len(r.calls) : r.calls[j].op = "put"}}
GetKeys(r) == {r.calls[i].key : i \in {j \in 1..Len(r.calls) : r.calls[j].op = "get"}}

(***************************************************************************)
(* C1                                                                      *)
(***************************************************************************)
\* every condition C1 asks of a request that writes the store
AuthorizedUpload(r) ==
    /\ r.method = "PUT" /\ r.path = "/upload"
    /\ IsSome(r.auth) /\ Val(r.auth).scheme = "Bearer "
    /\ TokenVerifies(Val(r.auth).token)
    /\ Val(r.auth).token.repository = ALLOWED_REPOSITORY
    /\ IsSome(r.filename) /\ ValidName(Val(r.filename))
    /\ IsSome(r.body)

\* C1: a step changes the store, or calls the bucket's put, only when it
\* answers a PUT /upload whose bearer header, token, repository claim,
\* filename and body all passed; every other request leaves the store as is.
C1_StoreWrittenOnlyByAuthorizedUpload ==
    [][(store' # store \/ (resp' # None /\ PutKeys(Val(resp')) # {}))
          => (resp' # None /\ AuthorizedUpload(Val(resp')))]_vars

C1_Witness ==
    /\ Answering
    /\ Stored(R)
    /\ Val(R.key) \in DOMAIN store

(***************************************************************************)
(* C2                                                                      *)
(***************************************************************************)
\* the request reached the filename validator of its handler
ReachedValidator(r) ==
    \/ r.route = "download"
    \/ /\ r.route = "upload"
       /\ IsBearer(r.auth)
       /\ TokenVerifies(Val(r.auth).token)
       /\ Val(r.auth).token.repository = ALLOWED_REPOSITORY

\* C2: a filename that is empty, contains '/' or '..' or a character outside
\* [A-Za-z0-9._-] is answered 400 with no storage call and no key derived, on
\* the upload path and on the download path alike, and never ends a key passed
\* to the bucket's put or get.
C2_UnsafeFilenameRejected ==
    Answering =>
        /\ (ReachedValidator(R) /\ IsSome(R.filename) /\ UnsafeName(Val(R.filename)))
              => (R.status = 400 /\ R.calls = <<>> /\ R.key = None)
        /\ \A k \in PutKeys(R) \cup GetKeys(R) : ~UnsafeName(LastSegment(k))

(***************************************************************************)
(* C3                                                                      *)
(***************************************************************************)
\* the stored objects of one (branch, filename) pair
ObjectsOf(branch, filename) ==
    {k \in DOMAIN store : store[k].branch = branch /\ LastSegment(k) = filename}

\* C3: the store holds at most one object per (branch, filename), and its
\* bytes, content type and metadata are those of the last successful upload
\* to that pair, with nothing kept from an earlier upload.
C3_LatestOnly ==
    /\ \A k \in DOMAIN store :
          /\ Cardinality(ObjectsOf(store[k].branch, LastSegment(k))) = 1
          /\ <<store[k].branch, LastSegment(k)>> \in DOMAIN latest
    /\ \A p \in DOMAIN latest :
          \E k \in ObjectsOf(p[1], p[2]) :
              LET u == latest[p]
              IN store[k] =
                   [body |-> u.body,
                    contentType |-> IF IsSome(u.ct) THEN Val(u.ct) ELSE DefaultContentType,
                    repository |-> u.token.repository,
                    branch |-> p[1],
                    ref |-> u.token.ref,
                    actor |-> u.token.actor,
                    run_id |-> u.token.run_id,
                    run_number |-> u.token.run_number,
                    uploaded_at |-> u.at]

\* a second upload to a pair has just replaced the first
C3_Witness ==
    /\ Answering
    /\ Stored(R)
    /\ \E p \in DOMAIN latest :
          /\ latest[p].count = 2
          /\ latest[p].at + 1 = clock
          /\ latest[p].token = TokMainLater

(***************************************************************************)
(* C4                                                                      *)
(***************************************************************************)
CheckOrder ==
    <<"bearer", "verify", "repository", "filename-present", "filename-valid", "key", "body">>

\* the status the fixed order of checks gives an upload (200: all passed)
FirstFailure(r) ==
    IF ~(IsSome(r.auth) /\ Val(r.auth).scheme = "Bearer ") THEN 401
    ELSE IF ~TokenVerifies(Val(r.auth).token) THEN 403
    ELSE IF Val(r.auth).token.repository # ALLOWED_REPOSITORY THEN 403
    ELSE IF ~IsSome(r.filename) \/ Val(r.filename) = <<>> THEN 400
    ELSE IF ~ValidName(Val(r.filename)) THEN 400
    ELSE IF ~IsSome(r.body) THEN 400
    ELSE 200

\* C4: an upload is checked in the order bearer header, token, repository,
\* filename, key and body, and answers with the first failing check without
\* evaluating a later one: 403 for ../../../etc/passwd with an invalid token,
\* 400 for it with an authorized token, and no key without a valid filename.
C4_UploadCheckOrder ==
    (Answering /\ R.route = "upload") =>
        /\ Len(R.checks) <= Len(CheckOrder)
        /\ R.checks = SubSeq(CheckOrder, 1, Len(R.checks))
        /\ FirstFailure(R) # 200 => (R.status = FirstFailure(R) /\ R.calls = <<>>)
        /\ FirstFailure(R) = 200 => (Len(R.calls) = 1 /\ R.checks = CheckOrder)
        /\ R.status = 401 => R.checks = <<"bearer">>
        /\ (R.status = 403 /\ R.calls = <<>>) =>
               (R.checks = SubSeq(CheckOrder, 1, 2) \/ R.checks = SubSeq(CheckOrder, 1, 3))
        /\ R.verified = (Len(R.checks) >= 2)
        /\ (R.filename = Some(NameTraversal) /\ IsBearer(R.auth)) =>
               R.status = IF FirstFailure(R) = 403 THEN 403 ELSE 400
        /\ IsSome(R.key) => ValidName(Val(R.filename))

\* the traversal filename under an invalid token, answered 403
C4_Witness ==
    /\ Answering
    /\ R.route = "upload"
    /\ R.filename = Some(NameTraversal)
    /\ IsBearer(R.auth)
    /\ ~TokenVerifies(Val(R.auth).token)
    /\ R.status = 403

(***************************************************************************)
(* C5                                                                      *)
(***************************************************************************)
\* C5: a successful upload with ref r and filename f writes and returns the
\* key branch + "/latest/" + f, branch being r without a leading refs/heads/
\* or refs/tags/ (the leading occurrence only), whatever the store holds.
C5_KeyDerivation ==
    (Answering /\ Stored(R)) =>
        LET expected == StripLeading(Val(R.auth).token.ref)
                            \o <<"/", "l", "a", "t", "e", "s", "t", "/">>
                            \o Val(R.filename)
        IN /\ R.respKey = Some(expected)
           /\ PutKeys(R) = {expected}
           /\ expected \in DOMAIN store
           /\ store[expected].branch = StripLeading(Val(R.auth).token.ref)

\* an upload from the branch named refs/heads/x has been stored
C5_Witness ==
    /\ Answering
    /\ Stored(R)
    /\ Val(R.auth).token.ref = RefDouble
    /\ R.status = 200

(***************************************************************************)
(* C6                                                                      *)
(***************************************************************************)
\* C6: a download of (b, f) after a successful upload to (b, f) answers 200
\* with the bytes of the last such upload and a Content-Disposition naming f,
\* whatever was uploaded to other pairs in between (the bucket's get
\* returning; a get that throws is the case of C8).
C6_RoundTrip ==
    (/\ Answering
     /\ R.route = "download"
     /\ IsSome(R.branch) /\ IsSome(R.filename)
     /\ <<Val(R.branch), Val(R.filename)>> \in DOMAIN latest
     /\ ~R.storageFailed)
        => /\ R.status = 200
           /\ R.bytes = Some(latest[<<Val(R.branch), Val(R.filename)>>].body)
           /\ R.disposition = R.filename

\* a download of an uploaded pair, with another pair uploaded after it
C6_Witness ==
    /\ Answering
    /\ R.route = "download"
    /\ R.status = 200
    /\ IsSome(R.branch)
    /\ <<Val(R.branch), Val(R.filename)>> \in DOMAIN latest
    /\ latest[<<Val(R.branch), Val(R.filename)>>].at = 0
    /\ Cardinality(DOMAIN latest) = 2

(***************************************************************************)
(* C7                                                                      *)
(***************************************************************************)
\* C7: a token verification fetches the key set only when no earlier request
\* has fetched it or when the token's key id is not in it, and at most once;
\* a verification finding the key in the cached set makes no network call.
C7_KeySetCached ==
    (Answering /\ R.verified) =>
        /\ R.fetches <= 1
        /\ R.fetches > 0 => (~R.cacheWarm \/ Val(R.auth).token.kid \notin RemoteJwks)

(***************************************************************************)
(* C8                                                                      *)
(***************************************************************************)
\* the statuses of the error taxonomy and of success
TaxonomyStatuses == {200, 400, 401, 403, 404}

\* C8: a failed storage call is answered by the handler (nothing escapes
\* uncaught) with a status outside the taxonomy, never 403, and the call is
\* made once.
C8_StorageFailureGeneric ==
    (Answering /\ R.storageFailed) =>
        /\ ~R.uncaught
        /\ R.status \notin TaxonomyStatuses
        /\ Len(R.calls) = 1

(***************************************************************************)
(* C9                                                                      *)
(***************************************************************************)
\* the outcome C9 gives a download whose branch is taken to be b
DownloadOutcome(r, b) ==
    IF ~IsSome(r.filename) \/ ~ValidName(Val(r.filename))
    THEN r.status = 400 /\ r.calls = <<>>
    ELSE LET k == b \o <<"/", "l", "a", "t", "e", "s", "t", "/">> \o Val(r.filename)
         IN IF k \notin DOMAIN store
            THEN r.status = 404
            ELSE r.status = 200 /\ r.bytes = Some(store[k].body)

\* C9 as stated: no token verification; 400, 404 or 200 as above, the branch
\* being main when the parameter is absent and the parameter otherwise.
C9_DownloadOutcome_AsStated ==
    (Answering /\ R.route = "download" /\ ~R.storageFailed) =>
        /\ ~R.verified /\ R.fetches = 0
        /\ DownloadOutcome(R, IF IsSome(R.branch) THEN Val(R.branch) ELSE DefaultBranch)
        /\ store = EmptyStore => R.status \in {400, 404}

\* C9: a download verifies no token; it answers 400 for a missing or invalid
\* filename, else 404 when no object is stored at branch/latest/filename, else
\* 200 with the stored bytes, the branch being main when the parameter is
\* absent or empty (the bucket's get returning; a get that throws is the case
\* of C8).
C9_DownloadOutcome ==
    (Answering /\ R.route = "download" /\ ~R.storageFailed) =>
        /\ ~R.verified /\ R.fetches = 0
        /\ DownloadOutcome(R, IF IsSome(R.branch) /\ Val(R.branch) # <<>>
                              THEN Val(R.branch) ELSE DefaultBranch)
        /\ store = EmptyStore => R.status \in {400, 404}

\* a download without a branch parameter finds the object of branch main
C9_Witness ==
    /\ Answering
    /\ R.route = "download"
    /\ ~IsSome(R.branch)
    /\ R.status = 200
    /\ Val(R.key) = DefaultBranch \o LatestSegment \o NameZip

(***************************************************************************)
(* C10                                                                     *)
(***************************************************************************)
\* C10: a listing answers 200 with its branch and exactly the objects of the
\* uploads whose derived branch is that branch, for every branch name.
C10_ListExactlyBranch ==
    (Answering /\ R.route = "artifacts" /\ ~R.storageFailed) =>
        LET b == IF IsSome(R.branch) /\ Val(R.branch) # <<>>
                 THEN Val(R.branch) ELSE DefaultBranch
        IN /\ R.status = 200
           /\ R.listBranch = Some(b)
           /\ {e.key : e \in R.listed} =
                 {p[1] \o <<"/", "l", "a", "t", "e", "s", "t", "/">> \o p[2] :
                     p \in {q \in DOMAIN latest : q[1] = b}}

(***************************************************************************)
(* C11                                                                     *)
(***************************************************************************)
AllDone == \A i \in DOMAIN inflight : inflight[i].pc = "done"

\* the upload whose put the bucket executed last
LastPut == CHOOSE i \in PutsExecuted :
               \A j \in PutsExecuted : inflight[j].putOrder <= inflight[i].putOrder

\* the download answered with the bytes, content type and metadata of upload j
ObservesWhole(d, j) ==
    LET o == Val(inflight[j].obj)
    IN /\ d.bytes = Some(o.body)
       /\ d.contentType = Some(o.contentType)
       /\ d.artifactHeaders = Some([repository |-> o.repository, branch |-> o.branch,
                                    uploaded_at |-> o.uploaded_at, run_id |-> o.run_id])

\* C11: under any interleaving of uploads and downloads of one (branch,
\* filename), each request makes at most one storage call; an answered
\* download is a 404 or carries the bytes and metadata of exactly one upload
\* whose put was executed, never parts of two; and when all requests are done
\* the stored object is that of the upload whose put executed last.
C11_ConcurrentUploadDownload ==
    /\ \A i \in DOMAIN inflight : Len(inflight[i].out.calls) <= 1
    /\ \A i \in DOMAIN inflight :
          (inflight[i].kind = "download" /\ inflight[i].pc = "done"
              /\ ~inflight[i].out.storageFailed)
             => \/ /\ inflight[i].out.status = 404
                   /\ inflight[i].out.bytes = None
                   /\ inflight[i].out.artifactHeaders = None
                \/ /\ inflight[i].out.status = 200
                   /\ \E j \in PutsExecuted : ObservesWhole(inflight[i].out, j)
    /\ AllDone =>
          IF PutsExecuted = {} THEN ConcKey \notin DOMAIN store
          ELSE /\ DOMAIN store = {ConcKey}
               /\ store[ConcKey] = Val(inflight[LastPut].obj)

\* two uploads whose puts executed in the reverse of the order they were
\* issued, and a download that saw the first of them, all finished
C11_Witness ==
    /\ AllDone
    /\ \E i, j \in PutsExecuted, d \in DOMAIN inflight :
          /\ inflight[i].putOrder < inflight[j].putOrder
          /\ Val(inflight[i].obj).uploaded_at > Val(inflight[j].obj).uploaded_at
          /\ inflight[d].kind = "download"
          /\ inflight[d].out.status = 200
          /\ ObservesWhole(inflight[d].out, i)
          /\ store[ConcKey] = Val(inflight[j].obj)

=============================================================================
